---- MODULE Spec2Model ----
(***************************************************************************)
(* Model of src/src/services/sop-text-generator.ts: the SOPTextGenerator   *)
(* service.  generateSOPText asks the generative model for a text, and     *)
(* parseSOPResponse turns that text into a two-level tree of sections and  *)
(* subsections.  Strings are sequences of one-character strings, so that   *)
(* trim, startsWith, split and the regular-expression replacements are     *)
(* computed character by character as the JavaScript code computes them.   *)
(***************************************************************************)
EXTENDS Integers, Sequences, FiniteSets, TLC

\* ------------------------------------------------------------------------
\* Bounds of the model
\* ------------------------------------------------------------------------

\* Largest number of lines joined with "\n" to form the text of a response.
MaxLines == 4

\* ------------------------------------------------------------------------
\* Values
\* ------------------------------------------------------------------------

\* null (currentSection, currentSubsection) / no object.
NULL == 0

\* The value of a `text` that is not a string (the model is typed `any`);
\* no string is equal to it, since a string is made of single characters.
Undefined == <<"undefined">>

\* No error has been caught.
NoError == "none"

NL == "\n"

Hash3 == <<"#", "#", "#">>

Hash4 == <<"#", "#", "#", "#">>

Digit == {"0", "1", "2", "3", "4", "5", "6", "7", "8", "9"}

\* The characters String.prototype.trim removes and the class \s matches,
\* among the characters that can occur inside one line.
WhiteSpace == {" ", "\t", "\r"}

\* ------------------------------------------------------------------------
\* String primitives
\* ------------------------------------------------------------------------

\* s.slice(n): s without its first n characters.
Drop(s, n) == IF n >= Len(s) THEN <<>> ELSE SubSeq(s, n + 1, Len(s))

\* s.startsWith(p)
StartsWith(s, p) == Len(s) >= Len(p) /\ SubSeq(s, 1, Len(p)) = p

\* Length of the longest prefix of s made of characters of class.
RECURSIVE Span(_, _)
Span(s, class) ==
    IF s # <<>> /\ Head(s) \in class THEN 1 + Span(Tail(s), class) ELSE 0

\* Length of the longest suffix of s made of characters of class.
RECURSIVE SpanEnd(_, _)
SpanEnd(s, class) ==
    IF s # <<>> /\ s[Len(s)] \in class
    THEN 1 + SpanEnd(SubSeq(s, 1, Len(s) - 1), class)
    ELSE 0

\* s.trim()
Trim(s) ==
    LET t == Drop(s, Span(s, WhiteSpace))
    IN  SubSeq(t, 1, Len(t) - SpanEnd(t, WhiteSpace))

\* `${n}` for a non-negative integer n: its decimal digits.
DigitOf(d) ==
    CASE d = 0 -> "0" [] d = 1 -> "1" [] d = 2 -> "2" [] d = 3 -> "3"
      [] d = 4 -> "4" [] d = 5 -> "5" [] d = 6 -> "6" [] d = 7 -> "7"
      [] d = 8 -> "8" [] d = 9 -> "9"

RECURSIVE NumberToString(_)
NumberToString(n) ==
    IF n < 10 THEN <<DigitOf(n)>>
    ELSE NumberToString(n \div 10) \o <<DigitOf(n % 10)>>

\* s.padStart(width, '0')
RECURSIVE PadStart(_, _)
PadStart(s, width) ==
    IF Len(s) >= width THEN s ELSE PadStart(<<"0">> \o s, width)

\* text.split('\n'): the pieces between the newlines, always at least one.
RECURSIVE Split(_)
Split(s) ==
    IF \A i \in 1..Len(s) : s[i] # NL THEN <<s>>
    ELSE LET p == CHOOSE i \in 1..Len(s) :
                      s[i] = NL /\ \A j \in 1..(i - 1) : s[j] # NL
         IN  <<SubSeq(s, 1, p - 1)>> \o Split(Drop(s, p))

\* ------------------------------------------------------------------------
\* The regular-expression replacements of parseSOPResponse.  Each is
\* anchored at the start and replaces at most one match with ''.  A greedy
\* \d+ followed by a non-digit can only match the maximal run of digits.
\* ------------------------------------------------------------------------

\* .replace(/^###\s*/, '')
StripHash3(s) ==
    IF StartsWith(s, Hash3)
    THEN LET r == Drop(s, 3) IN Drop(r, Span(r, WhiteSpace))
    ELSE s

\* .replace(/^####\s*/, '')
StripHash4(s) ==
    IF StartsWith(s, Hash4)
    THEN LET r == Drop(s, 4) IN Drop(r, Span(r, WhiteSpace))
    ELSE s

\* Length of the match of /^\d+\./ in s, 0 when there is none.
MatchNumDot(s) ==
    LET d == Span(s, Digit)
    IN  IF d >= 1 /\ Len(s) > d /\ s[d + 1] = "." THEN d + 1 ELSE 0

\* Length of the match of /^\d+\.\d+/ in s, 0 when there is none.
MatchNumDotNum(s) ==
    LET a == MatchNumDot(s)
        b == Span(Drop(s, a), Digit)
    IN  IF a >= 1 /\ b >= 1 THEN a + b ELSE 0

\* .replace(/^\d+\.\s*/, '')
StripNumDot(s) ==
    LET m == MatchNumDot(s)
    IN  IF m = 0 THEN s
        ELSE LET r == Drop(s, m) IN Drop(r, Span(r, WhiteSpace))

\* .replace(/^\d+\s+/, '')
StripNumSpace(s) ==
    LET d == Span(s, Digit)
        w == Span(Drop(s, d), WhiteSpace)
    IN  IF d >= 1 /\ w >= 1 THEN Drop(s, d + w) ELSE s

\* .replace(/^\d+\.\d+\s*/, '')
StripNumDotNum(s) ==
    LET m == MatchNumDotNum(s)
    IN  IF m = 0 THEN s
        ELSE LET r == Drop(s, m) IN Drop(r, Span(r, WhiteSpace))

\* .replace(/^\d+\.\d+\.\s*/, '')
StripNumDotNumDot(s) ==
    LET m == MatchNumDotNum(s)
    IN  IF m >= 1 /\ Len(s) > m /\ s[m + 1] = "."
        THEN LET r == Drop(s, m + 1) IN Drop(r, Span(r, WhiteSpace))
        ELSE s

\* The title of a main section, from the trimmed heading line.
SectionTitle(trimmedLine) ==
    Trim(StripNumSpace(StripNumDot(StripHash3(trimmedLine))))

\* The title of a subsection, from the trimmed heading line.
SubsectionTitle(trimmedLine) ==
    Trim(StripNumDotNumDot(StripNumDotNum(StripHash4(trimmedLine))))

\* IsMainSection without the exclusion of '####'.
IsMainSectionAnyHashes(trimmedLine) == StartsWith(trimmedLine, Hash3)

\* The three-way test of the loop body on the trimmed line.
IsMainSection(trimmedLine) ==
    StartsWith(trimmedLine, Hash3) /\ ~ StartsWith(trimmedLine, Hash4)

IsSubsection(trimmedLine) == StartsWith(trimmedLine, Hash4)

IsContent(trimmedLine) == Len(trimmedLine) > 0

\* ------------------------------------------------------------------------
\* Inputs: the caller's descriptor, the texts the model can answer with,
\* the clock and the random draws
\* ------------------------------------------------------------------------

\* Spells a line: Chars("abc") cannot be computed, so lines are tuples.
HeadingNumbered == <<"#", "#", "#", " ", "3", ".", " ", "A">>

HeadingTwoNumbers == <<"#", "#", "#", " ", "1", ".", " ", "2", " ", "A">>

SubheadingIndented == <<" ", "#", "#", "#", "#", " ", "1", ".", "1", " ", "B">>

SubheadingTrailingDot == <<"#", "#", "#", "#", " ", "1", ".", "1", ".", " ", "B">>

SubheadingFiveHashes == <<"#", "#", "#", "#", "#", "C">>

ContentIndented == <<" ", "x", " ">>

ContentPlain == <<"y">>

BlankSpaces == <<" ">>

\* The lines a response is made of.
LinePool ==
    { HeadingNumbered, HeadingTwoNumbers, SubheadingIndented,
      SubheadingTrailingDot, SubheadingFiveHashes, ContentIndented,
      ContentPlain, BlankSpaces }

\* ls joined with "\n".
RECURSIVE Join(_)
Join(ls) ==
    IF ls = <<>> THEN <<>>
    ELSE IF Len(ls) = 1 THEN ls[1]
    ELSE ls[1] \o <<NL>> \o Join(Tail(ls))

\* The texts response.text() can return.
Texts ==
    { Join(ls) : ls \in UNION { [1..n -> LinePool] : n \in 0..MaxLines } }

\* input.title of the SOPTextInput the caller passes.
Titles == { <<"T">> }

\* new Date(): the local year and month (0-based) that getFullYear and
\* getMonth read, and the UTC calendar date that toISOString prints.
Clocks ==
    { [year |-> 2025, month |-> 11, utcYear |-> 2026, utcMonth |-> 0, utcDate |-> 1],
      [year |-> 2026, month |-> 0, utcYear |-> 2026, utcMonth |-> 0, utcDate |-> 1] }

\* Math.floor(Math.random() * 1000), which ranges over 0..999.
RandomDraws == { 7, 999 }

\* The message of the one error generateSOPText throws.
FailedMessage == "Failed to generate SOP text"

\* ------------------------------------------------------------------------
\* State
\* ------------------------------------------------------------------------

VARIABLES
    pc,                 \* position in generateSOPText / parseSOPResponse
    input,              \* the SOPTextInput argument
    text,               \* response.text()
    error,              \* the value caught by the catch clause
    result,             \* how generateSOPText settled, or NULL
    lines,              \* text.split('\n')
    idx,                \* index in lines of the line the loop reads next
    heap,               \* the SOPSection objects allocated, by reference
    sections,           \* references of the sections pushed
    currentSection,     \* reference or NULL
    currentSubsection,  \* reference or NULL
    sectionNumber,
    subsectionNumber,
    sopDocument,        \* the value parseSOPResponse returned, or NULL
    previousDocuments   \* the values earlier invocations returned

vars ==
    << pc, input, text, error, result, lines, idx, heap, sections,
       currentSection, currentSubsection, sectionNumber, subsectionNumber,
       sopDocument, previousDocuments >>

parserVars ==
    << lines, idx, heap, sections, currentSection, currentSubsection,
       sectionNumber, subsectionNumber >>

\* The SOPSection value behind reference r, subsections included.
SectionValue(h, r) ==
    [ number |-> h[r].number,
      title |-> h[r].title,
      content |-> h[r].content,
      subsections |->
          [ k \in 1..Len(h[r].subsections) |->
              LET s == h[r].subsections[k]
              IN  [ number |-> h[s].number,
                    title |-> h[s].title,
                    content |-> h[s].content ] ] ]

\* `SOP-${year}-${month + 1, 2 digits}-${random, 3 digits}`
DocumentNumber(now, random) ==
    <<"S", "O", "P", "-">> \o NumberToString(now.year) \o <<"-">>
        \o PadStart(NumberToString(now.month + 1), 2) \o <<"-">>
        \o PadStart(NumberToString(random), 3)

\* now.toISOString().split('T')[0]
EffectiveDate(now) ==
    NumberToString(now.utcYear) \o <<"-">>
        \o PadStart(NumberToString(now.utcMonth + 1), 2) \o <<"-">>
        \o PadStart(NumberToString(now.utcDate), 2)

\* The object literal parseSOPResponse returns.
GeneratedSOPText(in, h, secs, now, random) ==
    [ title |-> in.title,
      documentNumber |-> DocumentNumber(now, random),
      version |-> <<"1", ".", "0">>,
      effectiveDate |-> EffectiveDate(now),
      sections |-> [ k \in 1..Len(secs) |-> SectionValue(h, secs[k]) ] ]

Init ==
    /\ pc = "generateContent"
    /\ input \in { [title |-> t] : t \in Titles }
    /\ text = <<>>
    /\ error = NoError
    /\ result = NULL
    /\ lines = <<>>
    /\ idx = 0
    /\ heap = <<>>
    /\ sections = <<>>
    /\ currentSection = NULL
    /\ currentSubsection = NULL
    /\ sectionNumber = 0
    /\ subsectionNumber = 0
    /\ sopDocument = NULL
    /\ previousDocuments = {}

\* ------------------------------------------------------------------------
\* generateSOPText: the calls before the parse
\* ------------------------------------------------------------------------

\* await this.model.generateContent(prompt) resolves.
GenerateContentResolves ==
    /\ pc = "generateContent"
    /\ pc' = "response"
    /\ UNCHANGED << input, text, error, result, parserVars, sopDocument,
                    previousDocuments >>

\* await this.model.generateContent(prompt) rejects.
GenerateContentRejects ==
    /\ pc = "generateContent"
    /\ pc' = "catch"
    /\ error' = "generateContent rejected"
    /\ UNCHANGED << input, text, result, parserVars, sopDocument,
                    previousDocuments >>

\* await result.response resolves.
ResponseResolves ==
    /\ pc = "response"
    /\ pc' = "text"
    /\ UNCHANGED << input, text, error, result, parserVars, sopDocument,
                    previousDocuments >>

\* await result.response rejects: the response is unavailable.
ResponseRejects ==
    /\ pc = "response"
    /\ pc' = "catch"
    /\ error' = "response unavailable"
    /\ UNCHANGED << input, text, result, parserVars, sopDocument,
                    previousDocuments >>

\* response.text() returns.
ResponseText ==
    /\ pc = "text"
    /\ text' \in Texts \cup {Undefined}
    /\ pc' = "parse"
    /\ UNCHANGED << input, error, result, parserVars, sopDocument,
                    previousDocuments >>

\* response.text() throws.
ResponseTextThrows ==
    /\ pc = "text"
    /\ pc' = "catch"
    /\ error' = "text() threw"
    /\ UNCHANGED << input, text, result, parserVars, sopDocument,
                    previousDocuments >>

\* ------------------------------------------------------------------------
\* parseSOPResponse
\* ------------------------------------------------------------------------

\* Entry: split the text and initialise the locals.
ParseBegin ==
    /\ pc = "parse"
    /\ text # Undefined
    /\ lines' = Split(text)
    /\ idx' = 1
    /\ heap' = <<>>
    /\ sections' = <<>>
    /\ currentSection' = NULL
    /\ currentSubsection' = NULL
    /\ sectionNumber' = 1
    /\ subsectionNumber' = 1
    /\ pc' = "loop"
    /\ UNCHANGED << input, text, error, result, sopDocument, previousDocuments >>

\* Entry with a text that is not a string: text.split is not a function.
ParseThrows ==
    /\ pc = "parse"
    /\ text = Undefined
    /\ pc' = "catch"
    /\ error' = "TypeError"
    /\ UNCHANGED << input, text, result, parserVars, sopDocument,
                    previousDocuments >>

\* The line the loop is reading, and its trimmed form.
line == lines[idx]

trimmedLine == Trim(line)

\* NewSection taking the number the heading line carries, when it has one.
NewSectionNumberFromHeading(title) ==
    LET body == StripHash3(trimmedLine)
        d == Span(body, Digit)
    IN  [ number |-> IF d >= 1 THEN SubSeq(body, 1, d)
                     ELSE NumberToString(sectionNumber),
          title |-> title,
          content |-> <<>>,
          subsections |-> <<>> ]

\* The SOPSection a main heading opens.
NewSection(title) ==
    [ number |-> NumberToString(sectionNumber),
      title |-> title,
      content |-> <<>>,
      subsections |-> <<>> ]

\* NewSubsection with an ordinal that counts the subsections of the whole
\* text and never starts again at 1.
NewSubsectionNoRestart(title) ==
    [ number |-> heap[currentSection].number \o <<".">>
                     \o NumberToString(Len(heap) - (sectionNumber - 1) + 1),
      title |-> title,
      content |-> <<>> ]

\* The SOPSection a subsection heading opens.
NewSubsection(title) ==
    [ number |-> heap[currentSection].number \o <<".">>
                     \o NumberToString(subsectionNumber),
      title |-> title,
      content |-> <<>> ]

\* Appended with the trimmed line in place of the line.
AppendedTrimmed(content) == content \o trimmedLine \o <<NL>>

\* (node.content || '') + line + '\n'
Appended(content) == content \o line \o <<NL>>

\* IsContentLine testing the length of the line as it was split, not of
\* the trimmed line.
IsContentLineUntrimmed == Len(line) > 0

\* The test of the third branch on the line the loop is reading.
IsContentLine == IsContent(trimmedLine)

\* Loop body, first branch: main section.
MainSectionLine ==
    /\ pc = "loop"
    /\ idx <= Len(lines)
    /\ IsMainSection(trimmedLine)
    /\ sections' = IF currentSection # NULL
                   THEN Append(sections, currentSection)
                   ELSE sections
    /\ heap' = Append(heap, NewSection(SectionTitle(trimmedLine)))
    /\ currentSection' = Len(heap) + 1
    /\ sectionNumber' = sectionNumber + 1
    /\ subsectionNumber' = 1
    /\ currentSubsection' = NULL
    /\ idx' = idx + 1
    /\ UNCHANGED << pc, input, text, error, result, lines, sopDocument,
                    previousDocuments >>

\* SubsectionLine without the test of currentSection: a subsection heading
\* read while no section is open still opens a subsection.
SubsectionLineUnguarded ==
    /\ pc = "loop"
    /\ idx <= Len(lines)
    /\ ~ IsMainSection(trimmedLine)
    /\ IsSubsection(trimmedLine)
    /\ LET new == [ number |-> <<".">> \o NumberToString(subsectionNumber),
                    title |-> SubsectionTitle(trimmedLine),
                    content |-> <<>> ]
       IN  heap' = IF currentSection # NULL
                   THEN [ Append(heap, NewSubsection(SubsectionTitle(trimmedLine)))
                            EXCEPT ![currentSection].subsections =
                                Append(@, Len(heap) + 1) ]
                   ELSE Append(heap, new)
    /\ currentSubsection' = Len(heap) + 1
    /\ subsectionNumber' = subsectionNumber + 1
    /\ idx' = idx + 1
    /\ UNCHANGED << pc, input, text, error, result, lines, sections,
                    currentSection, sectionNumber, sopDocument,
                    previousDocuments >>

\* Loop body, second branch: subsection.
SubsectionLine ==
    /\ pc = "loop"
    /\ idx <= Len(lines)
    /\ ~ IsMainSection(trimmedLine)
    /\ IsSubsection(trimmedLine)
    /\ IF currentSection # NULL
       THEN /\ heap' = [ Append(heap, NewSubsection(SubsectionTitle(trimmedLine)))
                           EXCEPT ![currentSection].subsections =
                               Append(@, Len(heap) + 1) ]
            /\ currentSubsection' = Len(heap) + 1
            /\ subsectionNumber' = subsectionNumber + 1
       ELSE UNCHANGED << heap, currentSubsection, subsectionNumber >>
    /\ idx' = idx + 1
    /\ UNCHANGED << pc, input, text, error, result, lines, sections,
                    currentSection, sectionNumber, sopDocument,
                    previousDocuments >>

\* ContentLine appending to the open section as well as to the open
\* subsection.
ContentLineBoth ==
    /\ pc = "loop"
    /\ idx <= Len(lines)
    /\ ~ IsMainSection(trimmedLine)
    /\ ~ IsSubsection(trimmedLine)
    /\ IsContent(trimmedLine)
    /\ heap' = [ r \in 1..Len(heap) |->
                   IF r \in {currentSubsection, currentSection}
                   THEN [ heap[r] EXCEPT !.content = @ \o line \o <<NL>> ]
                   ELSE heap[r] ]
    /\ idx' = idx + 1
    /\ UNCHANGED << pc, input, text, error, result, lines, sections,
                    currentSection, currentSubsection, sectionNumber,
                    subsectionNumber, sopDocument, previousDocuments >>

\* Loop body, third branch: content.
ContentLine ==
    /\ pc = "loop"
    /\ idx <= Len(lines)
    /\ ~ IsMainSection(trimmedLine)
    /\ ~ IsSubsection(trimmedLine)
    /\ IsContentLine
    /\ heap' = IF currentSubsection # NULL
               THEN [ heap EXCEPT ![currentSubsection].content = Appended(@) ]
               ELSE IF currentSection # NULL
               THEN [ heap EXCEPT ![currentSection].content = Appended(@) ]
               ELSE heap
    /\ idx' = idx + 1
    /\ UNCHANGED << pc, input, text, error, result, lines, sections,
                    currentSection, currentSubsection, sectionNumber,
                    subsectionNumber, sopDocument, previousDocuments >>

\* Loop body, no branch taken: the trimmed line is empty.
BlankLine ==
    /\ pc = "loop"
    /\ idx <= Len(lines)
    /\ ~ IsMainSection(trimmedLine)
    /\ ~ IsSubsection(trimmedLine)
    /\ ~ IsContentLine
    /\ idx' = idx + 1
    /\ UNCHANGED << pc, input, text, error, result, lines, heap, sections,
                    currentSection, currentSubsection, sectionNumber,
                    subsectionNumber, sopDocument, previousDocuments >>

\* ParseReturn without the push of the last section.
ParseReturnNoFlush ==
    /\ pc = "loop"
    /\ idx > Len(lines)
    /\ \E now \in Clocks, random \in RandomDraws :
          sopDocument' = GeneratedSOPText(input, heap, sections, now, random)
    /\ lines' = <<>>
    /\ idx' = 0
    /\ heap' = <<>>
    /\ sections' = <<>>
    /\ currentSection' = NULL
    /\ currentSubsection' = NULL
    /\ sectionNumber' = 0
    /\ subsectionNumber' = 0
    /\ pc' = "parsed"
    /\ UNCHANGED << input, text, error, result, previousDocuments >>

\* After the loop: push the last section, read the clock and the random
\* number, and return the document.  The locals die with the call.
ParseReturn ==
    /\ pc = "loop"
    /\ idx > Len(lines)
    /\ \E now \in Clocks, random \in RandomDraws :
          LET final == IF currentSection # NULL
                       THEN Append(sections, currentSection)
                       ELSE sections
          IN  sopDocument' = GeneratedSOPText(input, heap, final, now, random)
    /\ lines' = <<>>
    /\ idx' = 0
    /\ heap' = <<>>
    /\ sections' = <<>>
    /\ currentSection' = NULL
    /\ currentSubsection' = NULL
    /\ sectionNumber' = 0
    /\ subsectionNumber' = 0
    /\ pc' = "parsed"
    /\ UNCHANGED << input, text, error, result, previousDocuments >>

\* ------------------------------------------------------------------------
\* generateSOPText: the ways out
\* ------------------------------------------------------------------------

\* return sopDocument
ReturnDocument ==
    /\ pc = "parsed"
    /\ result' = [ threw |-> FALSE, value |-> sopDocument ]
    /\ pc' = "returned"
    /\ UNCHANGED << input, text, error, parserVars, sopDocument,
                    previousDocuments >>

\* CatchError throwing the error it caught.
CatchErrorRethrow ==
    /\ pc = "catch"
    /\ result' = [ threw |-> TRUE, message |-> error ]
    /\ pc' = "thrown"
    /\ UNCHANGED << input, text, error, parserVars, sopDocument,
                    previousDocuments >>

\* catch (error) { ...; throw new Error('Failed to generate SOP text') }
CatchError ==
    /\ pc = "catch"
    /\ result' = [ threw |-> TRUE, message |-> FailedMessage ]
    /\ pc' = "thrown"
    /\ UNCHANGED << input, text, error, parserVars, sopDocument,
                    previousDocuments >>

\* A later call of generateSOPText with the same input to which the model
\* answers with the same text: parseSOPResponse runs again on the same
\* arguments.
ParseAgain ==
    /\ pc = "returned"
    /\ previousDocuments = {}
    /\ previousDocuments' = {sopDocument}
    /\ sopDocument' = NULL
    /\ result' = NULL
    /\ pc' = "parse"
    /\ UNCHANGED << input, text, error, parserVars >>

Next ==
    \/ GenerateContentResolves
    \/ GenerateContentRejects
    \/ ResponseResolves
    \/ ResponseRejects
    \/ ResponseText
    \/ ResponseTextThrows
    \/ ParseBegin
    \/ ParseThrows
    \/ MainSectionLine
    \/ SubsectionLine
    \/ ContentLine
    \/ BlankLine
    \/ ParseReturn
    \/ ReturnDocument
    \/ CatchError

\* One call of generateSOPText.
Spec == Init /\ [][Next]_vars

NextAgain ==
    \/ Next
    \/ ParseAgain

\* Calls of generateSOPText one after the other on the same arguments.
SpecAgain == Init /\ [][NextAgain]_vars

\* ------------------------------------------------------------------------
\* The input as the properties read it
\* ------------------------------------------------------------------------

\* A line is a first-level heading when its trimmed text starts with '###'
\* but not with '####', a second-level heading when it starts with '####'.
FirstLevel(l) == StartsWith(Trim(l), Hash3) /\ ~ StartsWith(Trim(l), Hash4)

SecondLevel(l) == StartsWith(Trim(l), Hash4)

Blank(l) == Trim(l) = <<>>

Heading(l) == FirstLevel(l) \/ SecondLevel(l)

\* The indices of the first-level headings of ls, in increasing order.
RECURSIVE FirstLevelFrom(_, _)
FirstLevelFrom(ls, i) ==
    IF i > Len(ls) THEN <<>>
    ELSE IF FirstLevel(ls[i]) THEN <<i>> \o FirstLevelFrom(ls, i + 1)
    ELSE FirstLevelFrom(ls, i + 1)

FirstLevelIndices(ls) == FirstLevelFrom(ls, 1)

\* The indices of the second-level headings of ls from i up to the next
\* first-level heading.
RECURSIVE SecondLevelFrom(_, _)
SecondLevelFrom(ls, i) ==
    IF i > Len(ls) \/ FirstLevel(ls[i]) THEN <<>>
    ELSE IF SecondLevel(ls[i]) THEN <<i>> \o SecondLevelFrom(ls, i + 1)
    ELSE SecondLevelFrom(ls, i + 1)

\* The document parseSOPResponse returned is available.
Parsed == pc \in {"parsed", "returned"}

\* ------------------------------------------------------------------------
\* C1
\* ------------------------------------------------------------------------

\* C1: the sections of the document returned are numbered "1", "2", ..., "N"
\* in output order, N being the number of first-level heading lines of the
\* text, whatever digits the heading lines carry.
C1_SectionNumbers ==
    Parsed =>
        LET n == Len(FirstLevelIndices(Split(text)))
        IN  /\ Len(sopDocument.sections) = n
            /\ \A k \in 1..n :
                  sopDocument.sections[k].number = NumberToString(k)

\* Two sections were returned, the first from a heading that carries a 3.
C1_Witness ==
    /\ pc = "returned"
    /\ Split(text)[1] = HeadingNumbered
    /\ Len(sopDocument.sections) >= 2
    /\ sopDocument.sections[1].number = <<"1">>

\* ------------------------------------------------------------------------
\* C2
\* ------------------------------------------------------------------------

\* C2: the k-th subsection of the section numbered P is numbered "P.k", so
\* the ordinal is contiguous within a section and starts again at 1 in each
\* section.
C2_SubsectionNumbers ==
    Parsed =>
        \A j \in 1..Len(sopDocument.sections) :
            LET sec == sopDocument.sections[j]
            IN  \A k \in 1..Len(sec.subsections) :
                    sec.subsections[k].number =
                        sec.number \o <<".">> \o NumberToString(k)

\* Section 1 has a subsection and section 2 starts again at "2.1".
C2_Witness ==
    /\ pc = "returned"
    /\ Len(sopDocument.sections) = 2
    /\ Len(sopDocument.sections[1].subsections) >= 1
    /\ Len(sopDocument.sections[2].subsections) >= 1
    /\ sopDocument.sections[2].subsections[1].number = <<"2", ".", "1">>

\* ------------------------------------------------------------------------
\* C3
\* ------------------------------------------------------------------------

\* The number of lines of ls from index i on that satisfy Test.
CountLines(ls, i, Test(_)) == Cardinality({ j \in i..Len(ls) : Test(ls[j]) })

\* The sum of f over 1..n.
RECURSIVE Sum(_, _)
Sum(f, n) == IF n = 0 THEN 0 ELSE f[n] + Sum(f, n - 1)

\* The number of subsections of a document, and the number of characters
\* of all its contents.
SubsectionCount(doc) ==
    Sum([ j \in 1..Len(doc.sections) |-> Len(doc.sections[j].subsections) ],
        Len(doc.sections))

ContentSize(doc) ==
    Sum([ j \in 1..Len(doc.sections) |->
            Len(doc.sections[j].content)
            + Sum([ k \in 1..Len(doc.sections[j].subsections) |->
                      Len(doc.sections[j].subsections[k].content) ],
                  Len(doc.sections[j].subsections)) ],
        Len(doc.sections))

ContentChars(l) == IF Heading(l) \/ Blank(l) THEN 0 ELSE Len(l) + 1

\* C3: while no section is open the parser holds no node and no content
\* target, whatever second-level headings and content lines it has read; the
\* document returned has one subsection per second-level heading that
\* follows the first first-level heading, contents made of the content lines
\* that follow it, and no section when the text has no first-level heading.
C3_OrphanSubsectionDropped ==
    /\ (pc = "loop" /\ currentSection = NULL) =>
          /\ heap = <<>>
          /\ sections = <<>>
          /\ currentSubsection = NULL
          /\ subsectionNumber = 1
    /\ Parsed =>
          LET ls == Split(text)
              first == FirstLevelIndices(ls)
              from == IF first = <<>> THEN Len(ls) + 1 ELSE first[1]
          IN  /\ first = <<>> => sopDocument.sections = <<>>
              /\ SubsectionCount(sopDocument) = CountLines(ls, from, SecondLevel)
              /\ ContentSize(sopDocument) =
                    Sum([ i \in 1..Len(ls) |->
                            IF i < from THEN 0 ELSE ContentChars(ls[i]) ],
                        Len(ls))

\* A second-level heading and a content line were read before the first
\* first-level heading, and the document has one bare section.
C3_Witness ==
    /\ pc = "returned"
    /\ LET ls == Split(text)
       IN  /\ Len(ls) >= 3
           /\ SecondLevel(ls[1])
           /\ ls[2] = ContentPlain
           /\ FirstLevel(ls[3])
    /\ Len(sopDocument.sections) = 1
    /\ sopDocument.sections[1].subsections = <<>>

\* Only second-level headings: no section.
C3_WitnessOnlySecondLevel ==
    /\ pc = "returned"
    /\ Len(Split(text)) = 2
    /\ \A i \in 1..2 : SecondLevel(Split(text)[i])
    /\ sopDocument.sections = <<>>

\* ------------------------------------------------------------------------
\* C4
\* ------------------------------------------------------------------------

\* The node a content line goes to: the open subsection, else the open
\* section, else none.
InnermostOpen ==
    IF currentSubsection # NULL THEN currentSubsection ELSE currentSection

\* The loop is about to read a line.
Reading == pc = "loop" /\ idx <= Len(lines)

\* C4: a step that reads a content line appends it to the content of the
\* innermost open node and changes nothing else in any node; a step that
\* reads a first-level heading leaves no subsection open; and the open
\* subsection is always the last subsection of the open section.
C4_ContentToInnermost ==
    [][ /\ (Reading /\ ~ Heading(line) /\ ~ Blank(line)) =>
             /\ Len(heap') = Len(heap)
             /\ \A r \in 1..Len(heap) :
                   IF r = InnermostOpen
                   THEN heap'[r] =
                          [ heap[r] EXCEPT !.content = @ \o line \o <<NL>> ]
                   ELSE heap'[r] = heap[r]
             /\ currentSection' = currentSection
             /\ currentSubsection' = currentSubsection
             /\ sections' = sections
        /\ (Reading /\ FirstLevel(line)) =>
             /\ currentSubsection' = NULL
             /\ currentSection' = Len(heap) + 1
             /\ heap'[currentSection'].subsections = <<>>
        /\ (pc' = "loop" /\ currentSubsection' # NULL) =>
             /\ currentSection' # NULL
             /\ heap'[currentSection'].subsections # <<>>
             /\ LET subs == heap'[currentSection'].subsections
                IN  subs[Len(subs)] = currentSubsection'
      ]_vars

\* Section 1 was pushed with a subsection, and a content line read after
\* the second first-level heading went to section 2.
C4_Witness ==
    /\ pc = "loop"
    /\ Len(sections) = 1
    /\ heap[sections[1]].subsections # <<>>
    /\ currentSection # NULL
    /\ currentSubsection = NULL
    /\ heap[currentSection].content = ContentPlain \o <<NL>>
    /\ heap[sections[1]].content = <<>>
    /\ \A k \in 1..Len(heap[sections[1]].subsections) :
          heap[heap[sections[1]].subsections[k]].content = <<>>

\* ------------------------------------------------------------------------
\* C5
\* ------------------------------------------------------------------------

\* C5: two invocations of parseSOPResponse with the same text and the same
\* descriptor return equal documents.
C5_SameArgumentsSameDocument ==
    Parsed => \A d \in previousDocuments : d = sopDocument

\* ------------------------------------------------------------------------
\* C6
\* ------------------------------------------------------------------------

\* The line read last.
lastLine == lines[idx - 1]

\* The text of a heading line after its marker of n characters and the
\* whitespace that follows the marker.
HeadingBody(l, n) ==
    LET r == Drop(Trim(l), n) IN Drop(r, Span(r, WhiteSpace))

\* The length of a prefix "N.M " or "N.M. " of b without its whitespace,
\* 0 when b has no such prefix.
TwoLevelPrefix(b) ==
    LET n == Span(b, Digit)
        m == IF n >= 1 /\ Len(b) > n /\ b[n + 1] = "."
             THEN Span(Drop(b, n + 1), Digit) ELSE 0
        bare == n + 1 + m
        dotted == IF m >= 1 /\ Len(b) > bare /\ b[bare + 1] = "."
                  THEN bare + 1 ELSE bare
    IN  IF m >= 1 /\ Len(b) > dotted /\ b[dotted + 1] \in WhiteSpace
        THEN dotted ELSE 0

\* C6: the subsection opened by a second-level heading whose text begins
\* with "N.M " or "N.M. " has for title the trimmed text after that prefix.
C6_TwoLevelPrefixDiscarded ==
    ( /\ pc = "loop"
      /\ idx > 1
      /\ SecondLevel(lastLine)
      /\ currentSubsection # NULL
      /\ TwoLevelPrefix(HeadingBody(lastLine, 4)) > 0 ) =>
        LET b == HeadingBody(lastLine, 4)
        IN  heap[currentSubsection].title = Trim(Drop(b, TwoLevelPrefix(b)))

\* ------------------------------------------------------------------------
\* C7
\* ------------------------------------------------------------------------

\* The length of a prefix "N. " or "N " of b without its whitespace, 0 when
\* b has no such prefix.
OneLevelPrefix(b) ==
    LET n == Span(b, Digit)
        dotted == IF n >= 1 /\ Len(b) > n /\ b[n + 1] = "." THEN n + 1 ELSE n
    IN  IF n >= 1 /\ Len(b) > dotted /\ b[dotted + 1] \in WhiteSpace
        THEN dotted ELSE 0

\* C7: the section opened by a first-level heading whose text begins with
\* "N. " or "N " has for title the trimmed text after that one prefix.
C7_OneLevelPrefixDiscarded ==
    ( /\ pc = "loop"
      /\ idx > 1
      /\ FirstLevel(lastLine)
      /\ OneLevelPrefix(HeadingBody(lastLine, 3)) > 0 ) =>
        LET b == HeadingBody(lastLine, 3)
        IN  heap[currentSection].title = Trim(Drop(b, OneLevelPrefix(b)))

\* ------------------------------------------------------------------------
\* C8
\* ------------------------------------------------------------------------

\* C8: once a step of generateSOPText has failed the call can only end by
\* throwing; it throws the one generic error and nothing else, and a call in
\* which no step failed returns the document parseSOPResponse produced.
C8_GenericFailure ==
    /\ error # NoError => pc \in {"catch", "thrown"}
    /\ pc = "thrown" =>
          /\ error # NoError
          /\ result = [ threw |-> TRUE, message |-> FailedMessage ]
    /\ pc = "returned" =>
          /\ error = NoError
          /\ result = [ threw |-> FALSE, value |-> sopDocument ]

\* The call failed inside the parser and threw.
C8_Witness ==
    /\ pc = "thrown"
    /\ error = "TypeError"
    /\ result.threw

\* ------------------------------------------------------------------------
\* C9
\* ------------------------------------------------------------------------

\* C9: a step that reads a line whose trimmed text starts with '####' does
\* not count a section, does not push or replace the open section and does
\* not lower the subsection ordinal.
C9_SecondLevelNeverFirstLevel ==
    [][ (Reading /\ StartsWith(Trim(line), Hash4)) =>
            /\ sectionNumber' = sectionNumber
            /\ sections' = sections
            /\ currentSection' = currentSection
            /\ subsectionNumber' >= subsectionNumber
            /\ Len(heap') =
                  Len(heap) + (IF currentSection # NULL THEN 1 ELSE 0)
      ]_vars

\* An indented '####' line and a '#####' line were read under section 1.
C9_Witness ==
    /\ pc = "loop"
    /\ idx = 4
    /\ FirstLevel(lines[1])
    /\ lines[2] = SubheadingIndented
    /\ lines[3] = SubheadingFiveHashes
    /\ sectionNumber = 2
    /\ subsectionNumber = 3
    /\ sections = <<>>
    /\ Len(heap[currentSection].subsections) = 2

\* ------------------------------------------------------------------------
\* C10
\* ------------------------------------------------------------------------

\* The lines of ls from index i up to the next heading of any rank, each
\* non-blank one followed by a newline.
RECURSIVE Gather(_, _)
Gather(ls, i) ==
    IF i > Len(ls) \/ Heading(ls[i]) THEN <<>>
    ELSE (IF Blank(ls[i]) THEN <<>> ELSE ls[i] \o <<NL>>) \o Gather(ls, i + 1)

\* C10: the content of the k-th section is made of the non-blank lines,
\* verbatim and in order, between its heading and the next heading of any
\* rank, and the content of each of its subsections likewise.
C10_ContentVerbatim ==
    Parsed =>
        LET ls == Split(text)
            first == FirstLevelIndices(ls)
        IN  /\ Len(sopDocument.sections) = Len(first)
            /\ \A k \in 1..Len(first) :
                  LET sec == sopDocument.sections[k]
                      subs == SecondLevelFrom(ls, first[k] + 1)
                  IN  /\ sec.content = Gather(ls, first[k] + 1)
                      /\ Len(sec.subsections) = Len(subs)
                      /\ \A j \in 1..Len(subs) :
                            sec.subsections[j].content =
                                Gather(ls, subs[j] + 1)

\* A section holds an indented line verbatim and its subsection the line
\* that follows the subsection heading.
C10_Witness ==
    /\ pc = "returned"
    /\ Len(sopDocument.sections) = 1
    /\ sopDocument.sections[1].content = ContentIndented \o <<NL>>
    /\ Len(sopDocument.sections[1].subsections) = 1
    /\ sopDocument.sections[1].subsections[1].content = ContentPlain \o <<NL>>

\* A section holds two lines in the order of the text.
C10_WitnessOrder ==
    /\ pc = "returned"
    /\ Len(sopDocument.sections) = 1
    /\ sopDocument.sections[1].content =
          ContentPlain \o <<NL>> \o ContentIndented \o <<NL>>

\* ------------------------------------------------------------------------
\* C11
\* ------------------------------------------------------------------------

\* No line of a content is blank: the pieces of the content before each of
\* its newlines are not empty once trimmed.
NoBlankLine(content) ==
    LET pieces == Split(content)
    IN  \A i \in 1..(Len(pieces) - 1) : ~ Blank(pieces[i])

\* C11: a step that reads a line whose trimmed text is empty changes no
\* node, neither counter, neither the open section nor the open subsection,
\* nor the sections pushed; no content of the document returned has a blank
\* line; and the empty text gives a document without sections.
C11_BlankLineNoOp ==
    [][ /\ (Reading /\ Blank(line)) =>
             /\ heap' = heap
             /\ sections' = sections
             /\ currentSection' = currentSection
             /\ currentSubsection' = currentSubsection
             /\ sectionNumber' = sectionNumber
             /\ subsectionNumber' = subsectionNumber
             /\ idx' = idx + 1
        /\ pc' = "parsed" =>
             /\ text = <<>> => sopDocument'.sections = <<>>
             /\ \A k \in 1..Len(sopDocument'.sections) :
                   LET sec == sopDocument'.sections[k]
                   IN  /\ NoBlankLine(sec.content)
                       /\ \A j \in 1..Len(sec.subsections) :
                             NoBlankLine(sec.subsections[j].content)
      ]_vars

\* A whitespace-only line was read while a section and a subsection with a
\* content were open.
C11_Witness ==
    /\ pc = "loop"
    /\ idx = 5
    /\ lastLine = BlankSpaces
    /\ currentSection # NULL
    /\ currentSubsection # NULL
    /\ heap[currentSubsection].content = ContentPlain \o <<NL>>
    /\ sectionNumber = 2
    /\ subsectionNumber = 2

\* The empty text was parsed into a document without sections.
C11_WitnessEmptyText ==
    /\ pc = "returned"
    /\ text = <<>>
    /\ sopDocument.sections = <<>>

\* ------------------------------------------------------------------------
\* C12
\* ------------------------------------------------------------------------

\* The references of the sections opened so far (the objects that have a
\* list of subsections), in the order they were opened.
RECURSIVE SectionsOpenedFrom(_, _)
SectionsOpenedFrom(h, r) ==
    IF r > Len(h) THEN <<>>
    ELSE (IF "subsections" \in DOMAIN h[r] THEN <<r>> ELSE <<>>)
             \o SectionsOpenedFrom(h, r + 1)

SectionsOpened(h) == SectionsOpenedFrom(h, 1)

\* The open section as a list of zero or one reference.
OpenSection(cur) == IF cur # NULL THEN <<cur>> ELSE <<>>

\* C12: during the loop the sections opened are, in order, the sections
\* pushed followed by the open one, so that each is pushed once and in order
\* of appearance; only a first-level heading read while a section is open
\* pushes, and it pushes that section; a step changes neither a pushed
\* section nor any of its subsections; and the end of the input returns the
\* pushed sections followed by the open one, as they are, and nothing more.
C12_CommittedOnceAndFrozen ==
    [][ /\ (pc = "loop" /\ pc' = "loop") =>
             /\ sections' =
                   IF Reading /\ FirstLevel(line) /\ currentSection # NULL
                   THEN Append(sections, currentSection)
                   ELSE sections
             /\ \A k \in 1..Len(sections) :
                   /\ heap'[sections[k]] = heap[sections[k]]
                   /\ \A j \in 1..Len(heap[sections[k]].subsections) :
                         LET sub == heap[sections[k]].subsections[j]
                         IN  heap'[sub] = heap[sub]
        /\ pc' = "loop" =>
             SectionsOpened(heap') = sections' \o OpenSection(currentSection')
        /\ (pc = "loop" /\ pc' = "parsed") =>
             LET final == sections \o OpenSection(currentSection)
             IN  /\ final = SectionsOpened(heap)
                 /\ sopDocument'.sections =
                       [ k \in 1..Len(final) |-> SectionValue(heap, final[k]) ]
      ]_vars

\* The first section was pushed by the second heading, content was read
\* after that, and the second section was pushed by the end of the input.
C12_Witness ==
    /\ pc = "returned"
    /\ Len(Split(text)) = 4
    /\ Len(sopDocument.sections) = 2
    /\ sopDocument.sections[1].content = ContentPlain \o <<NL>>
    /\ sopDocument.sections[2].content = ContentIndented \o <<NL>>
    /\ sopDocument.sections[1].number = <<"1">>
    /\ sopDocument.sections[2].number = <<"2">>

====
